---- MODULE Spec2Model ----
(***************************************************************************)
(* Model of the text-processor Lambda of text-processing-pipeline          *)
(* (src/lib/text-processing-pipeline-stack.ts, lines 106-266): the         *)
(* request handler, analyzeText, logError, logResponse, and the DynamoDB   *)
(* table the handler writes to.                                            *)
(*                                                                         *)
(* Representation of strings and buffers.  A JavaScript string is a        *)
(* sequence of UTF-16 code units and a Buffer a sequence of bytes.  The    *)
(* handler's size limit is 1048576 bytes and its truncation limit 1000     *)
(* characters, so strings as long as that have to exist in the model.  A   *)
(* string (or buffer) is therefore kept run-length encoded: a sequence of  *)
(* runs [c |-> unit, n |-> count], n >= 1, adjacent runs having different  *)
(* units.  "aab" is <<[c |-> 97, n |-> 2], [c |-> 98, n |-> 1]>>.  Every   *)
(* string operation below computes, on that encoding, what the JavaScript  *)
(* operation computes on the string; two strings are equal exactly when    *)
(* their encodings are equal.                                              *)
(***************************************************************************)
EXTENDS Integers, Sequences, FiniteSets, TLC

\* ------------------------------------------------------------------------
\* Characters (code units) the model names
\* ------------------------------------------------------------------------
LF == 10
CR == 13
SPACE == 32
DOT == 46
EQUALS == 61
NBSP == 160
REPLACEMENT == 65533

\* ECMAScript WhiteSpace + LineTerminator: the set String.prototype.trim
\* strips and the set the regular expression class \s matches (the two are
\* defined by the same productions in ECMA-262).
IsWhiteSpace(c) ==
    \/ c \in {9, 10, 11, 12, 13, 32, 160, 5760, 8232, 8233, 8239, 8287, 12288, 65279}
    \/ (c >= 8192 /\ c <= 8202)

\* ------------------------------------------------------------------------
\* Run-length encoded strings
\* ------------------------------------------------------------------------
Run(c, n) == [c |-> c, n |-> n]

\* The encoding of the concatenation of the runs of t: empty runs dropped,
\* adjacent runs of one unit merged.
RECURSIVE Canon(_)
Canon(t) ==
    IF t = <<>> THEN <<>>
    ELSE IF t[1].n = 0 THEN Canon(Tail(t))
    ELSE LET r == Canon(Tail(t))
         IN  IF r # <<>> /\ r[1].c = t[1].c
             THEN <<Run(t[1].c, t[1].n + r[1].n)>> \o Tail(r)
             ELSE <<t[1]>> \o r

\* The string whose code units are the elements of the sequence s.
Str(s) == Canon([i \in 1..Len(s) |-> Run(s[i], 1)])

\* s + t
Concat(s, t) == Canon(s \o t)

\* s.length
RECURSIVE Length(_)
Length(t) == IF t = <<>> THEN 0 ELSE t[1].n + Length(Tail(t))

\* s.charCodeAt(i - 1), for 1 <= i <= s.length
RECURSIVE CharAt(_, _)
CharAt(t, i) == IF i <= t[1].n THEN t[1].c ELSE CharAt(Tail(t), i - t[1].n)

\* s.substring(0, k)
RECURSIVE substring(_, _)
substring(t, k) ==
    IF t = <<>> \/ k <= 0 THEN <<>>
    ELSE IF t[1].n >= k THEN <<Run(t[1].c, k)>>
    ELSE <<t[1]>> \o substring(Tail(t), k - t[1].n)

\* s.replace(/\r\n/g, '\n'): every CR that is immediately followed by an LF
\* is dropped.  In a run of CRs followed by a run of LFs only the last CR is
\* followed by an LF.
RECURSIVE DropCrBeforeLf(_)
DropCrBeforeLf(t) ==
    IF t = <<>> THEN <<>>
    ELSE IF t[1].c = CR /\ Len(t) >= 2 /\ t[2].c = LF
         THEN <<Run(CR, t[1].n - 1)>> \o DropCrBeforeLf(Tail(t))
         ELSE <<t[1]>> \o DropCrBeforeLf(Tail(t))

\* replaceCrLf without the replacement: CR LF stays two characters.
replaceCrLfKeepsPair(t) == t

replaceCrLf(t) == Canon(DropCrBeforeLf(t))

\* s.replace(/\r/g, '\n')
replaceCr(t) == Canon([i \in 1..Len(t) |-> IF t[i].c = CR THEN Run(LF, t[i].n) ELSE t[i]])

\* s.trimStart(), s.trimEnd(), s.trim()
RECURSIVE trimStart(_)
trimStart(t) ==
    IF t # <<>> /\ IsWhiteSpace(t[1].c) THEN trimStart(Tail(t)) ELSE t

RECURSIVE trimEnd(_)
trimEnd(t) ==
    IF t # <<>> /\ IsWhiteSpace(t[Len(t)].c) THEN trimEnd(SubSeq(t, 1, Len(t) - 1)) ELSE t

trim(t) == trimEnd(trimStart(t))

\* s.split(/\s+/): the pieces of s between its maximal runs of whitespace,
\* a sequence of strings.  cur is the piece being read; inSep says that the
\* unit before t was whitespace.  ("".split(/\s+/) is [""].)
RECURSIVE SplitWsFrom(_, _, _)
SplitWsFrom(t, cur, inSep) ==
    IF t = <<>> THEN <<cur>>
    ELSE IF IsWhiteSpace(t[1].c)
         THEN IF inSep THEN SplitWsFrom(Tail(t), cur, TRUE)
              ELSE <<cur>> \o SplitWsFrom(Tail(t), <<>>, TRUE)
         ELSE SplitWsFrom(Tail(t), Concat(cur, <<t[1]>>), FALSE)

splitWhitespace(t) == SplitWsFrom(t, <<>>, FALSE)

\* s.split('\n'): the pieces of s between its line feeds; a run of n line
\* feeds ends the piece before it and has n - 1 empty pieces inside it.
RECURSIVE SplitLfFrom(_, _)
SplitLfFrom(t, cur) ==
    IF t = <<>> THEN <<cur>>
    ELSE IF t[1].c = LF
         THEN <<cur>> \o [i \in 1..(t[1].n - 1) |-> <<>>] \o SplitLfFrom(Tail(t), <<>>)
         ELSE SplitLfFrom(Tail(t), Concat(cur, <<t[1]>>))

splitLf(t) == SplitLfFrom(t, <<>>)

\* pieces.filter(p => p.trim().length > 0).length
RECURSIVE countNonBlank(_)
countNonBlank(pieces) ==
    IF pieces = <<>> THEN 0
    ELSE (IF Length(trim(pieces[1])) > 0 THEN 1 ELSE 0) + countNonBlank(Tail(pieces))

\* ------------------------------------------------------------------------
\* Buffers: Buffer.from(s, 'utf-8'), Buffer.from(s, 'base64'),
\* buf.toString('utf-8').  A buffer is a run-length encoded byte sequence.
\* ------------------------------------------------------------------------

\* The sequence seq repeated n times.
RECURSIVE Repeat(_, _)
Repeat(seq, n) ==
    IF n = 0 \/ seq = <<>> THEN <<>>
    ELSE IF Len(seq) = 1 THEN <<Run(seq[1].c, seq[1].n * n)>>
    ELSE seq \o Repeat(seq, n - 1)

\* t without its first k units.
RECURSIVE Drop(_, _)
Drop(t, k) ==
    IF t = <<>> \/ k <= 0 THEN t
    ELSE IF t[1].n > k THEN <<Run(t[1].c, t[1].n - k)>> \o Tail(t)
    ELSE Drop(Tail(t), k - t[1].n)

\* The UTF-8 bytes of one code unit of the Basic Multilingual Plane (the
\* event bodies of the model hold no surrogate code units).
Utf8Bytes(c) ==
    IF c < 128 THEN <<Run(c, 1)>>
    ELSE IF c < 2048 THEN <<Run(192 + (c \div 64), 1), Run(128 + (c % 64), 1)>>
    ELSE <<Run(224 + (c \div 4096), 1), Run(128 + ((c \div 64) % 64), 1),
           Run(128 + (c % 64), 1)>>

\* Buffer.from(s, 'utf-8')
RECURSIVE Utf8EncodeRuns(_)
Utf8EncodeRuns(t) ==
    IF t = <<>> THEN <<>>
    ELSE Repeat(Utf8Bytes(t[1].c), t[1].n) \o Utf8EncodeRuns(Tail(t))

bufferFromUtf8(t) == Canon(Utf8EncodeRuns(t))

\* The value of a base64 (or base64url) digit, 64 for any other character.
unbase64(c) ==
    IF c >= 65 /\ c <= 90 THEN c - 65
    ELSE IF c >= 97 /\ c <= 122 THEN c - 71
    ELSE IF c >= 48 /\ c <= 57 THEN c + 4
    ELSE IF c = 43 \/ c = 45 THEN 62
    ELSE IF c = 47 \/ c = 95 THEN 63
    ELSE 64

\* The six bits of a digit value, most significant first, as runs of bits.
Bits6(v) == Canon([i \in 1..6 |-> Run((v \div (2 ^ (6 - i))) % 2, 1)])

\* The bits of the digits of t up to its first '=', characters that are no
\* digits skipped (Node's decoder stops at '=' and ignores other characters).
RECURSIVE Base64Bits(_)
Base64Bits(t) ==
    IF t = <<>> \/ t[1].c = EQUALS THEN <<>>
    ELSE IF unbase64(t[1].c) = 64 THEN Base64Bits(Tail(t))
    ELSE Repeat(Bits6(unbase64(t[1].c)), t[1].n) \o Base64Bits(Tail(t))

\* The number a sequence of bit runs spells, most significant first.
RECURSIVE BitsValue(_)
BitsValue(bits) ==
    IF bits = <<>> THEN 0
    ELSE LET r == bits[Len(bits)]
             hi == BitsValue(SubSeq(bits, 1, Len(bits) - 1))
         IN  hi * (2 ^ r.n) + (IF r.c = 1 THEN (2 ^ r.n) - 1 ELSE 0)

\* The bytes of a bit sequence, eight bits each; an incomplete last group
\* gives no byte.
RECURSIVE BytesOfBits(_)
BytesOfBits(bits) ==
    IF Length(bits) < 8 THEN <<>>
    ELSE IF bits[1].n >= 8
         THEN <<Run(bits[1].c * 255, bits[1].n \div 8)>>
              \o BytesOfBits(Canon(<<Run(bits[1].c, bits[1].n % 8)>> \o Tail(bits)))
         ELSE <<Run(BitsValue(substring(bits, 8)), 1)>> \o BytesOfBits(Drop(bits, 8))

\* Buffer.from(s, 'base64')
bufferFromBase64(t) == Canon(BytesOfBits(Canon(Base64Bits(t))))

IsContinuation(b) == b >= 128 /\ b <= 191

\* The second byte a UTF-8 lead byte allows.
SecondByteOk(lead, b) ==
    IF lead = 224 THEN b >= 160 /\ b <= 191
    ELSE IF lead = 237 THEN b >= 128 /\ b <= 159
    ELSE IF lead = 240 THEN b >= 144 /\ b <= 191
    ELSE IF lead = 244 THEN b >= 128 /\ b <= 143
    ELSE IsContinuation(b)

\* buf.toString('utf-8'): well-formed sequences decode to their code units
\* (a code point above 65535 to its surrogate pair), and every maximal
\* ill-formed subsequence to U+FFFD.
RECURSIVE Utf8Decode(_)
Utf8Decode(b) ==
    IF b = <<>> THEN <<>>
    ELSE LET b1 == b[1].c
             len == Length(b)
             b2 == IF len >= 2 THEN CharAt(b, 2) ELSE 0
             b3 == IF len >= 3 THEN CharAt(b, 3) ELSE 0
             b4 == IF len >= 4 THEN CharAt(b, 4) ELSE 0
             bad(k) == <<Run(REPLACEMENT, 1)>> \o Utf8Decode(Drop(b, k))
         IN  IF b1 < 128 THEN <<b[1]>> \o Utf8Decode(Tail(b))
             ELSE IF b1 < 194 \/ b1 > 244 THEN <<Run(REPLACEMENT, b[1].n)>> \o Utf8Decode(Tail(b))
             ELSE IF len < 2 \/ ~SecondByteOk(b1, b2) THEN bad(1)
             ELSE IF b1 < 224
                  THEN <<Run((b1 - 192) * 64 + (b2 - 128), 1)>> \o Utf8Decode(Drop(b, 2))
             ELSE IF len < 3 \/ ~IsContinuation(b3) THEN bad(2)
             ELSE IF b1 < 240
                  THEN <<Run((b1 - 224) * 4096 + (b2 - 128) * 64 + (b3 - 128), 1)>>
                       \o Utf8Decode(Drop(b, 3))
             ELSE IF len < 4 \/ ~IsContinuation(b4) THEN bad(3)
             ELSE LET cp == (b1 - 240) * 262144 + (b2 - 128) * 4096
                            + (b3 - 128) * 64 + (b4 - 128) - 65536
                  IN  <<Run(55296 + (cp \div 1024), 1), Run(56320 + (cp % 1024), 1)>>
                      \o Utf8Decode(Drop(b, 4))

bufferToString(b) == Canon(Utf8Decode(b))

\* ------------------------------------------------------------------------
\* Values that may be absent (null, undefined): <<>> is absent, <<v>> is v.
\* ------------------------------------------------------------------------
Absent == <<>>
Some(v) == <<v>>

\* JavaScript truthiness of a string that may be absent: present and not "".
Truthy(opt) == opt # Absent /\ opt[1] # <<>>

\* s.toLowerCase(), on the ASCII letters
toLowerCase(t) ==
    Canon([i \in 1..Len(t) |-> IF t[i].c >= 65 /\ t[i].c <= 90
                                THEN Run(t[i].c + 32, t[i].n) ELSE t[i]])

\* s.includes(needle)
includes(t, needle) ==
    \E i \in 0..(Length(t) - Length(needle)) :
        \A j \in 1..Length(needle) : CharAt(t, i + j) = CharAt(needle, j)

\* n.toString(), n a non-negative integer: its decimal digits
RECURSIVE DecimalDigits(_)
DecimalDigits(n) ==
    IF n < 10 THEN <<48 + n>> ELSE Append(DecimalDigits(n \div 10), 48 + (n % 10))

numberToString(n) == Str(DecimalDigits(n))

TEXT_PLAIN == Str(<<116, 101, 120, 116, 47, 112, 108, 97, 105, 110>>)
ELLIPSIS == Str(<<46, 46, 46>>)

\* ------------------------------------------------------------------------
\* The program
\* ------------------------------------------------------------------------
MAX_FILE_SIZE_BYTES == 1048576
MAX_TEXT_CONTENT == 1000
MAX_LOGGED_BODY == 200

VARIABLES
    now,          \* the wall clock, in milliseconds (Date.now())
    table,        \* the DynamoDB table: id -> item
    puts,         \* the items the table has accepted, in the order of the puts
    log,          \* what console.log / console.error have written, in order
    invocations,  \* handler invocations so far
    event,        \* the last invocation's event, Absent before the first
    response,     \* the last invocation's returned response
    steps,        \* the checks and operations the last invocation ran, in order
    fileBuffer,   \* the last invocation's locals, Absent when not assigned
    rawText,
    analysis,
    skeleton,     \* analyzeText applied on its own: a text with LF line breaks,
    endings,      \* two choices of a line-ending convention for each break,
    input,        \* the text with the first choice of line endings,
    variant,      \* the text with the second choice,
    result,       \* and analyzeText's results for the two
    resultVariant

vars == <<now, table, puts, log, invocations, event, response, steps, fileBuffer,
          rawText, analysis, skeleton, endings, input, variant, result, resultVariant>>

handlerVars == <<now, table, puts, log, invocations, event, response, steps, fileBuffer,
                 rawText, analysis>>
analyzeVars == <<skeleton, endings, input, variant, result, resultVariant>>

\* event.headers['content-type'] || event.headers['Content-Type']
headerOf(headers, name) == IF name \in DOMAIN headers THEN Some(headers[name]) ELSE Absent

contentTypeOf(e) ==
    IF Truthy(headerOf(e.headers, "content-type"))
    THEN headerOf(e.headers, "content-type")
    ELSE headerOf(e.headers, "Content-Type")

\* !contentType || !contentType.toLowerCase().includes('text/plain')
invalidContentType(contentType) ==
    ~Truthy(contentType) \/ ~includes(toLowerCase(contentType[1]), TEXT_PLAIN)

\* event.isBase64Encoded ? Buffer.from(body, 'base64') : Buffer.from(body, 'utf-8')
decodeBody(e) ==
    IF e.isBase64Encoded THEN bufferFromBase64(e.body[1]) ELSE bufferFromUtf8(e.body[1])

\* tooLarge with >= for >.
tooLargeAtLimit(buffer) == Length(buffer) >= MAX_FILE_SIZE_BYTES

\* fileBuffer.length > MAX_FILE_SIZE_BYTES
tooLarge(buffer) == Length(buffer) > MAX_FILE_SIZE_BYTES

\* normalize without the final trim().
normalizeWithoutTrim(text) == replaceCr(replaceCrLf(text))

\* rawText.replace(/\r\n/g, '\n').replace(/\r/g, '\n').trim()
normalize(text) == trim(replaceCr(replaceCrLf(text)))

\* wordCountOf without the filter for empty tokens.
wordCountUnfiltered(normalizedText) == Len(splitWhitespace(normalizedText))

wordCountOf(normalizedText) == countNonBlank(splitWhitespace(normalizedText))

\* lineCountOf counting the line feeds instead of the lines.
lineCountOfLineFeeds(normalizedText) == Len(splitLf(normalizedText)) - 1

lineCountOf(normalizedText) == countNonBlank(splitLf(normalizedText))

analyzeText(text) ==
    LET normalizedText == normalize(text)
    IN  [wordCount |-> wordCountOf(normalizedText),
         lineCount |-> lineCountOf(normalizedText),
         normalizedText |-> normalizedText]

\* textContentOf with >= for >.
textContentCutAtLimit(normalizedText) ==
    IF Length(normalizedText) >= MAX_TEXT_CONTENT
    THEN Concat(substring(normalizedText, MAX_TEXT_CONTENT), ELLIPSIS)
    ELSE normalizedText

\* normalizedText.length > 1000 ? normalizedText.substring(0, 1000) + '...' : normalizedText
textContentOf(normalizedText) ==
    IF Length(normalizedText) > MAX_TEXT_CONTENT
    THEN Concat(substring(normalizedText, MAX_TEXT_CONTENT), ELLIPSIS)
    ELSE normalizedText

\* The Item of the put.  processedAt is the clock reading the ISO string spells.
itemOf(processingId, a, t) ==
    [id |-> processingId,
     textContent |-> textContentOf(a.normalizedText),
     wordCount |-> a.wordCount,
     lineCount |-> a.lineCount,
     processedAt |-> t]

\* dynamoDb.put: the item replaces whatever the table holds under its id.
put(tbl, item) ==
    [k \in DOMAIN tbl \cup {item.id} |-> IF k = item.id THEN item ELSE tbl[k]]

\* What logResponse and logError write.
logResponse(resp, e, ctx, t) ==
    [fn |-> "logResponse", timestamp |-> t, requestId |-> ctx.awsRequestId,
     statusCode |-> resp.statusCode, body |-> resp.body]

logError(message, e, ctx, t) ==
    [fn |-> "logError", timestamp |-> t, requestId |-> ctx.awsRequestId,
     message |-> message, headers |-> e.headers,
     bodyShort |-> substring(IF Truthy(e.body) THEN e.body[1] ELSE <<>>, MAX_LOGGED_BODY)]

\* A 400 response.  A message is the sequence of the pieces its template
\* literal joins.
badRequest(message) == [statusCode |-> 400, body |-> [message |-> message]]

\* bodyMissing testing for null only: "" is let through.
bodyMissingNullOnly(e) == e.body = Absent

\* !event.body
bodyMissing(e) == ~Truthy(e.body)

AllSteps ==
    <<"body", "contentType", "decode", "empty", "size", "whitespace", "analyze",
      "zeroCount", "put">>

\* One run of handler's try block at clock reading t: the steps it ran, the
\* locals it assigned, the item it put (if the put was reached and
\* succeeded), the message of the error it threw (if the put was reached
\* and failed) and, unless it threw, the response it built.
tryBlock(e, ctx, t, putSucceeds) ==
    LET out(ran, resp, buf, raw, a, item, thrown) ==
            [steps |-> ran, response |-> resp, fileBuffer |-> buf, rawText |-> raw,
             analysis |-> a, item |-> item, thrown |-> thrown]
    IN
    IF bodyMissing(e)
    THEN out(<<"body">>, Some(badRequest(<<"No file uploaded.">>)), Absent, Absent, Absent, Absent, Absent)
    ELSE IF invalidContentType(contentTypeOf(e))
    THEN out(<<"body", "contentType">>,
             Some(badRequest(<<"Invalid file type. Only text/plain (.txt) files are allowed.">>)),
             Absent, Absent, Absent, Absent, Absent)
    ELSE LET buffer == decodeBody(e) IN
    IF Length(buffer) = 0
    THEN out(<<"body", "contentType", "decode", "empty">>,
             Some(badRequest(<<"Uploaded file is empty.">>)),
             Some(buffer), Absent, Absent, Absent, Absent)
    ELSE IF tooLarge(buffer)
    THEN out(<<"body", "contentType", "decode", "empty", "size">>,
             Some(badRequest(<<"File size exceeds the 1MB limit. Your file size: ",
                               Length(buffer), " bytes.">>)),
             Some(buffer), Absent, Absent, Absent, Absent)
    ELSE LET raw == bufferToString(buffer) IN
    IF Length(trim(raw)) = 0
    THEN out(<<"body", "contentType", "decode", "empty", "size", "whitespace">>,
             Some(badRequest(<<"Uploaded file contains no meaningful text (only whitespace).">>)),
             Some(buffer), Some(raw), Absent, Absent, Absent)
    ELSE LET a == analyzeText(raw) IN
    IF a.wordCount = 0 /\ a.lineCount = 0
    THEN out(<<"body", "contentType", "decode", "empty", "size", "whitespace", "analyze", "zeroCount">>,
             Some(badRequest(<<"No text content found after processing.">>)),
             Some(buffer), Some(raw), Some(a), Absent, Absent)
    ELSE LET processingId == numberToString(t) IN
    IF putSucceeds
    THEN out(AllSteps,
             Some([statusCode |-> 200,
                   body |-> [message |-> <<"Text processed successfully">>,
                             processingId |-> processingId,
                             wordCount |-> a.wordCount,
                             lineCount |-> a.lineCount]]),
             Some(buffer), Some(raw), Some(a), Some(itemOf(processingId, a, t)), Absent)
    ELSE out(AllSteps, Absent,
             Some(buffer), Some(raw), Some(a), Absent, Some(<<"put failed">>))

\* A catch block that swallows the error and reports success.
errorResponseSwallowed(errMessage, ctx) ==
    [statusCode |-> 200,
     body |-> [message |-> <<"Error processing text">>, error |-> errMessage,
               requestId |-> ctx.awsRequestId]]

\* The catch block's response.
errorResponse(errMessage, ctx) ==
    [statusCode |-> 500,
     body |-> [message |-> <<"Error processing text">>, error |-> errMessage,
               requestId |-> ctx.awsRequestId]]

\* handler(event, context): the whole invocation, at one clock reading.  The
\* put either succeeds or rejects (putSucceeds); nothing else in the try
\* block throws.
handler(e, ctx, putSucceeds) ==
    \E r \in {tryBlock(e, ctx, now, putSucceeds)} :
    LET resp == IF r.thrown = Absent THEN r.response[1]
                ELSE errorResponse(r.thrown[1], ctx)
    IN  /\ event' = Some(e)
        /\ invocations' = invocations + 1
        /\ steps' = r.steps
        /\ fileBuffer' = r.fileBuffer
        /\ rawText' = r.rawText
        /\ analysis' = r.analysis
        /\ table' = IF r.item # Absent THEN put(table, r.item[1]) ELSE table
        /\ puts' = IF r.item # Absent THEN Append(puts, r.item[1]) ELSE puts
        /\ log' = log
                  \o (IF r.thrown # Absent THEN <<logError(r.thrown[1], e, ctx, now)>> ELSE <<>>)
                  \o <<logResponse(resp, e, ctx, now)>>
        /\ response' = Some(resp)
        /\ UNCHANGED <<now, analyzeVars>>

\* ------------------------------------------------------------------------
\* Inputs
\* ------------------------------------------------------------------------
MaxRequests == 2
MaxClock == 1
MaxRuns == 3
MaxLen == 4

Event(body, headers, isBase64Encoded) ==
    [body |-> body, headers |-> headers, isBase64Encoded |-> isBase64Encoded]

Context(id) == [awsRequestId |-> id]

NoHeaders == [name \in {} |-> <<>>]
Header(name, value) == [n \in {name} |-> value]
PlainHeaders == Header("content-type", TEXT_PLAIN)
JsonHeaders ==
    Header("content-type",
           Str(<<97, 112, 112, 108, 105, 99, 97, 116, 105, 111, 110, 47, 106, 115, 111, 110>>))
\* Content-Type: Text/Plain; charset=UTF-8
MixedCaseHeaders ==
    Header("Content-Type",
           Str(<<84, 101, 120, 116, 47, 80, 108, 97, 105, 110, 59, 32, 99, 104, 97, 114,
                 115, 101, 116, 61, 85, 84, 70, 45, 56>>))
\* content-type is "", Content-Type is text/plain
EmptyThenPlainHeaders ==
    [n \in {"content-type", "Content-Type"} |-> IF n = "content-type" THEN <<>> ELSE TEXT_PLAIN]
\* content-type is application/json, Content-Type is text/plain
JsonThenPlainHeaders ==
    [n \in {"content-type", "Content-Type"} |->
        IF n = "content-type" THEN JsonHeaders["content-type"] ELSE TEXT_PLAIN]
UpperCaseNameHeaders == Header("CONTENT-TYPE", TEXT_PLAIN)

AllHeaders ==
    {NoHeaders, PlainHeaders, JsonHeaders, MixedCaseHeaders, EmptyThenPlainHeaders,
     JsonThenPlainHeaders, UpperCaseNameHeaders}

\* The strings of at most k runs drawn from runs.
RunSeqs(runs, k) == UNION {[1..m -> runs] : m \in 0..k}
Strings(runs, k) == {Canon(t) : t \in RunSeqs(runs, k)}

\* Text bodies: 'a', 'b', space, LF, CR and the two-byte NBSP, with runs of
\* 'a' and of spaces long enough to reach the limits.
TextRuns ==
    {Run(c, 1) : c \in {97, 98, SPACE, LF, CR, NBSP}}
    \cup {Run(97, n) : n \in {MAX_TEXT_CONTENT, MAX_FILE_SIZE_BYTES - 1, MAX_FILE_SIZE_BYTES}}
    \cup {Run(SPACE, MAX_FILE_SIZE_BYTES + 1)}

\* Base64 bodies: the digits A (0), I (8), Q (16), Y (24), '=', a space, and
\* runs of A that decode to MAX_FILE_SIZE_BYTES and to MAX_FILE_SIZE_BYTES + 1
\* zero bytes.
Base64Runs ==
    {Run(c, 1) : c \in {65, 73, 81, 89, EQUALS, SPACE}}
    \cup {Run(65, n) : n \in {(MAX_FILE_SIZE_BYTES * 4) \div 3 + 1,
                              (MAX_FILE_SIZE_BYTES * 4) \div 3 + 2}}

\* Bodies sent with every header combination and either encoding flag.
ProbeBodies ==
    {Absent, Some(<<>>), Some(Str(<<97>>)), Some(Str(<<SPACE>>)),
     Some(<<Run(65, (MAX_FILE_SIZE_BYTES * 4) \div 3 + 2)>>),
     Some(<<Run(SPACE, MAX_FILE_SIZE_BYTES + 1)>>),
     Some(Str(<<EQUALS>>)), Some(Str(<<73, 65>>))}

\* The events of a single invocation.
RequestEvents ==
    {Event(Some(b), PlainHeaders, FALSE) : b \in Strings(TextRuns, MaxRuns)}
    \cup {Event(Some(b), PlainHeaders, TRUE) : b \in Strings(Base64Runs, MaxRuns)}
    \cup {Event(b, h, f) : b \in ProbeBodies, h \in AllHeaders, f \in BOOLEAN}

\* The events of the system of several invocations: "a b", "a\nb", " ", no body.
SystemEvents ==
    {Event(b, h, FALSE) :
        b \in {Absent, Some(Str(<<97, SPACE, 98>>)), Some(Str(<<97, LF, 98>>)),
               Some(Str(<<SPACE>>))},
        h \in {PlainHeaders, JsonHeaders}}

\* ------------------------------------------------------------------------
\* The system: a clock, the table, and handler invocations
\* ------------------------------------------------------------------------
Init ==
    /\ now = 0
    /\ table = [k \in {} |-> Absent]
    /\ puts = <<>>
    /\ log = <<>>
    /\ invocations = 0
    /\ event = Absent
    /\ response = Absent
    /\ steps = <<>>
    /\ fileBuffer = Absent
    /\ rawText = Absent
    /\ analysis = Absent
    /\ skeleton = <<>>
    /\ endings = <<>>
    /\ input = <<>>
    /\ variant = <<>>
    /\ result = Absent
    /\ resultVariant = Absent

\* A millisecond passes.
Tick ==
    /\ now < MaxClock
    /\ now' = now + 1
    /\ UNCHANGED <<table, puts, log, invocations, event, response, steps, fileBuffer, rawText,
                   analysis, analyzeVars>>

Invoke ==
    /\ invocations < MaxRequests
    /\ \E e \in SystemEvents, putSucceeds \in BOOLEAN :
           handler(e, Context(invocations + 1), putSucceeds)

Next == Tick \/ Invoke

Spec == Init /\ [][Next]_vars

\* A single invocation against an empty table.
InvokeOnce ==
    /\ invocations = 0
    /\ \E e \in RequestEvents, putSucceeds \in BOOLEAN :
           handler(e, Context(1), putSucceeds)

SpecRequest == Init /\ [][InvokeOnce]_vars

\* ------------------------------------------------------------------------
\* analyzeText on its own: a text of at most MaxLen characters and line
\* breaks ('a', space, and LF standing for a line break), written twice,
\* each time with a line-ending convention chosen for every break.
\* ------------------------------------------------------------------------
Conventions == {"LF", "CR", "CRLF"}

\* "hello world\n\nfoo"
HelloWorld == <<104, 101, 108, 108, 111, 32, 119, 111, 114, 108, 100, 10, 10, 102, 111, 111>>

Skeletons == UNION {[1..m -> {97, SPACE, LF}] : m \in 0..MaxLen} \cup {HelloWorld}

Breaks(s) == {i \in 1..Len(s) : s[i] = LF}

EndingUnits(convention) ==
    IF convention = "LF" THEN <<Run(LF, 1)>>
    ELSE IF convention = "CR" THEN <<Run(CR, 1)>>
    ELSE <<Run(CR, 1), Run(LF, 1)>>

\* The text s with the break at each position i written as ending[i].
RECURSIVE RenderFrom(_, _, _)
RenderFrom(s, ending, i) ==
    IF i > Len(s) THEN <<>>
    ELSE (IF s[i] = LF THEN EndingUnits(ending[i]) ELSE <<Run(s[i], 1)>>)
         \o RenderFrom(s, ending, i + 1)

Render(s, ending) == Canon(RenderFrom(s, ending, 1))

InitAnalyze ==
    /\ now = 0
    /\ table = [k \in {} |-> Absent]
    /\ puts = <<>>
    /\ log = <<>>
    /\ invocations = 0
    /\ event = Absent
    /\ response = Absent
    /\ steps = <<>>
    /\ fileBuffer = Absent
    /\ rawText = Absent
    /\ analysis = Absent
    /\ skeleton \in Skeletons
    /\ endings \in [1..2 -> [Breaks(skeleton) -> Conventions]]
    /\ input = Render(skeleton, endings[1])
    /\ variant = Render(skeleton, endings[2])
    /\ result = Absent
    /\ resultVariant = Absent

Analyze ==
    /\ result = Absent
    /\ result' = Some(analyzeText(input))
    /\ resultVariant' = Some(analyzeText(variant))
    /\ UNCHANGED <<handlerVars, skeleton, endings, input, variant>>

SpecAnalyze == InitAnalyze /\ [][Analyze]_vars

\* ========================================================================
\* Properties
\* ========================================================================

\* The code units of a string, one by one.
RECURSIVE Expand(_)
Expand(t) ==
    IF t = <<>> THEN <<>> ELSE [i \in 1..t[1].n |-> t[1].c] \o Expand(Tail(t))

\* The positions of s where a word starts: a character that is no
\* whitespace, at the start of s or right after whitespace.
WordStarts(s) ==
    {i \in 1..Len(s) : ~IsWhiteSpace(s[i]) /\ (i = 1 \/ IsWhiteSpace(s[i - 1]))}

\* The positions of s that hold the first character of their line that is
\* no whitespace: every character between the line's start and i is
\* whitespace.
NonBlankLineStarts(s) ==
    {i \in 1..Len(s) :
        /\ ~IsWhiteSpace(s[i])
        /\ \A j \in 1..(i - 1) :
               (\A k \in j..(i - 1) : s[k] # LF) => IsWhiteSpace(s[j])}

\* A string has no whitespace at either end.
Trimmed(t) == t = <<>> \/ (~IsWhiteSpace(t[1].c) /\ ~IsWhiteSpace(t[Len(t)].c))

HasUnit(t, c) == \E i \in 1..Len(t) : t[i].c = c

\* C7: wordCount is the number of non-empty tokens of the normalized text
\* between runs of whitespace (one per place where a word starts), and
\* lineCount the number of its LF-separated segments that hold a character
\* other than whitespace; "hello world\n\nfoo" gives 3 and 2.
C7_CountsAreTokensAndNonBlankLines ==
    result # Absent =>
        LET s == Expand(result[1].normalizedText)
        IN  /\ result[1].wordCount = Cardinality(WordStarts(s))
            /\ result[1].lineCount = Cardinality(NonBlankLineStarts(s))
            /\ (input = Str(HelloWorld) =>
                    result[1].wordCount = 3 /\ result[1].lineCount = 2)

C7_Witness ==
    /\ result # Absent
    /\ input = Str(HelloWorld)
    /\ result[1].wordCount = 3
    /\ result[1].lineCount = 2

\* C8: normalizing a normalized text gives the same text, and a normalized
\* text holds no carriage return and no whitespace at either end.
C8_NormalizeIdempotent ==
    result # Absent =>
        LET n == result[1].normalizedText
        IN  /\ normalize(n) = n
            /\ ~HasUnit(n, CR)
            /\ Trimmed(n)

\* An input with CR LF, a lone CR and outer whitespace has been normalized.
C8_Witness ==
    /\ result # Absent
    /\ HasUnit(input, CR)
    /\ HasUnit(input, LF)
    /\ ~Trimmed(input)
    /\ Length(result[1].normalizedText) >= 3

\* A lone-CR break immediately followed by an LF break: the two read as one
\* CR LF break.
CrBreakThenLfBreak(s, ending) ==
    \E i \in 1..(Len(s) - 1) :
        /\ s[i] = LF /\ s[i + 1] = LF
        /\ ending[i] = "CR" /\ ending[i + 1] = "LF"

\* C9 as stated: two texts that differ only in the line-ending convention
\* used at each break get the same normalizedText, lineCount and wordCount.
C9_SameResultForAnyLineEndings ==
    result # Absent => result = resultVariant

\* C9 as amended: the two texts get the same lineCount and wordCount, and
\* the same normalizedText unless one of them writes a lone-CR break
\* immediately followed by an LF break.
C9_SameCountsForAnyLineEndings ==
    result # Absent =>
        /\ result[1].wordCount = resultVariant[1].wordCount
        /\ result[1].lineCount = resultVariant[1].lineCount
        /\ (~CrBreakThenLfBreak(skeleton, endings[1])
                /\ ~CrBreakThenLfBreak(skeleton, endings[2])
            => result[1].normalizedText = resultVariant[1].normalizedText)

\* Two lines written with different, mixed conventions have been analyzed.
C9_Witness ==
    /\ result # Absent
    /\ Cardinality(Breaks(skeleton)) >= 2
    /\ \E i, j \in Breaks(skeleton) : endings[1][i] # endings[1][j]
    /\ \A i \in Breaks(skeleton) : endings[1][i] # endings[2][i]
    /\ result[1].lineCount = 2
    /\ result = resultVariant

\* ------------------------------------------------------------------------
\* The handler
\* ------------------------------------------------------------------------
Range(f) == {f[i] : i \in DOMAIN f}

\* The body as a string, "" when there is none.
BodyText(e) == IF e.body = Absent THEN <<>> ELSE e.body[1]

\* The number of bytes the body decodes to, counted from the body: as
\* UTF-8, one, two or three bytes for each code unit; as base64, six bits
\* for each digit before the first '=', eight bits to the byte.
RECURSIVE Utf8Size(_)
Utf8Size(t) ==
    IF t = <<>> THEN 0
    ELSE t[1].n * (IF t[1].c < 128 THEN 1 ELSE IF t[1].c < 2048 THEN 2 ELSE 3)
         + Utf8Size(Tail(t))

RECURSIVE Base64Digits(_)
Base64Digits(t) ==
    IF t = <<>> \/ t[1].c = EQUALS THEN 0
    ELSE (IF unbase64(t[1].c) < 64 THEN t[1].n ELSE 0) + Base64Digits(Tail(t))

DecodedSize(e) ==
    IF e.isBase64Encoded THEN (6 * Base64Digits(BodyText(e))) \div 8
    ELSE Utf8Size(BodyText(e))

DecodedText(e) ==
    bufferToString(IF e.isBase64Encoded THEN bufferFromBase64(BodyText(e))
                   ELSE bufferFromUtf8(BodyText(e)))

AllWhiteSpace(t) == \A i \in 1..Len(t) : IsWhiteSpace(t[i].c)

LowerCase(c) == IF c >= 65 /\ c <= 90 THEN c + 32 ELSE c

\* The header value holds text/plain, in any letter case.
HoldsTextPlain(value) ==
    \E i \in 0..(Length(value) - 10) :
        \A j \in 1..10 : LowerCase(CharAt(value, i + j)) = CharAt(TEXT_PLAIN, j)

\* The six checks, each stated of the event alone.
Violates(k, e) ==
    IF k = 1 THEN e.body = Absent \/ e.body[1] = <<>>
    ELSE IF k = 2 THEN contentTypeOf(e) = Absent \/ ~HoldsTextPlain(contentTypeOf(e)[1])
    ELSE IF k = 3 THEN DecodedSize(e) = 0
    ELSE IF k = 4 THEN DecodedSize(e) > MAX_FILE_SIZE_BYTES
    ELSE IF k = 5 THEN AllWhiteSpace(DecodedText(e))
    ELSE LET a == analyzeText(DecodedText(e)) IN a.wordCount = 0 /\ a.lineCount = 0

Violated(e) == {k \in 1..6 : Violates(k, e)}

FirstViolated(e) == CHOOSE k \in Violated(e) : \A j \in Violated(e) : k <= j

MessageOf(k, e) ==
    IF k = 1 THEN <<"No file uploaded.">>
    ELSE IF k = 2 THEN <<"Invalid file type. Only text/plain (.txt) files are allowed.">>
    ELSE IF k = 3 THEN <<"Uploaded file is empty.">>
    ELSE IF k = 4 THEN <<"File size exceeds the 1MB limit. Your file size: ",
                         DecodedSize(e), " bytes.">>
    ELSE IF k = 5 THEN <<"Uploaded file contains no meaningful text (only whitespace).">>
    ELSE <<"No text content found after processing.">>

\* What has run when check k rejects: the checks up to k and the decoding
\* and analysis they read.
StepsTo(k) ==
    IF k = 1 THEN <<"body">>
    ELSE IF k = 2 THEN <<"body", "contentType">>
    ELSE IF k = 3 THEN <<"body", "contentType", "decode", "empty">>
    ELSE IF k = 4 THEN <<"body", "contentType", "decode", "empty", "size">>
    ELSE IF k = 5 THEN <<"body", "contentType", "decode", "empty", "size", "whitespace">>
    ELSE <<"body", "contentType", "decode", "empty", "size", "whitespace", "analyze",
           "zeroCount">>

\* C1: an invocation writes a record exactly when it answers 200; a 400
\* never reaches the put, and an invocation whose put fails answers 500 and
\* leaves the table as it was.
C1_RecordWrittenIffOk ==
    [][invocations' # invocations =>
          /\ (puts' # puts) <=> (response'[1].statusCode = 200)
          /\ puts' # puts =>
                 /\ Len(puts') = Len(puts) + 1
                 /\ puts'[Len(puts')].id \in DOMAIN table'
                 /\ table'[puts'[Len(puts')].id] = puts'[Len(puts')]
          /\ puts' = puts => table' = table
          /\ response'[1].statusCode = 400 => "put" \notin Range(steps')
          /\ response'[1].statusCode # 400 => "put" \in Range(steps')
          /\ response'[1].statusCode \in {200, 400, 500}]_vars

\* After a record was written, an invocation's put failed: it answered 500
\* and the table holds the one record.
C1_Witness ==
    /\ response # Absent
    /\ response[1].statusCode = 500
    /\ Len(puts) = 1
    /\ DOMAIN table = {puts[1].id}

\* C2: the response to a request that violates checks is the 400 of the
\* first check it violates, in the order body, content type, empty, size,
\* whitespace, zero counts; nothing after that check has run and nothing
\* is written.  A request that violates none reaches the put.
C2_FirstViolatedCheckAnswers ==
    event # Absent =>
        IF Violated(event[1]) # {}
        THEN LET k == FirstViolated(event[1])
             IN  /\ response[1] = badRequest(MessageOf(k, event[1]))
                 /\ steps = StepsTo(k)
                 /\ puts = <<>>
                 /\ DOMAIN table = {}
        ELSE /\ response[1].statusCode \in {200, 500}
             /\ steps = AllSteps

\* A request with a wrong content type and an oversized body was answered
\* with the content type's message.
C2_Witness ==
    /\ event # Absent
    /\ {2, 4} \subseteq Violated(event[1])
    /\ response[1] = badRequest(MessageOf(2, event[1]))

\* C3 as stated: every successful request has its own record; the table
\* holds as many records as there were successful requests, each as its
\* request wrote it.
C3_EverySuccessKeepsItsRecord ==
    /\ Cardinality(DOMAIN table) = Len(puts)
    /\ \A i \in 1..Len(puts) : table[puts[i].id] = puts[i]

\* C4: a text with a character other than whitespace gets wordCount >= 1
\* and lineCount >= 1; the zero-count rejection is never given, and every
\* record of the table has wordCount >= 1 and lineCount >= 1.
C4_MeaningfulTextHasCounts ==
    /\ (rawText # Absent /\ ~AllWhiteSpace(rawText[1])) =>
           /\ analysis # Absent
           /\ analysis[1].wordCount >= 1
           /\ analysis[1].lineCount >= 1
    /\ response # Absent =>
           response[1].body.message # <<"No text content found after processing.">>
    /\ \A id \in DOMAIN table : table[id].wordCount >= 1 /\ table[id].lineCount >= 1

\* A text of two lines separated by a lone CR was stored.
C4_Witness ==
    /\ response # Absent
    /\ response[1].statusCode = 200
    /\ HasUnit(rawText[1], CR)
    /\ \E id \in DOMAIN table : table[id].wordCount = 2 /\ table[id].lineCount = 2

\* C5: with a body and a text/plain content type, the size checks read the
\* decoded byte length: 0 is rejected as empty, more than 1048576 is
\* rejected with that length in the message, and any length from 1 to
\* 1048576 passes the size check.
C5_SizeCheckOnDecodedLength ==
    (event # Absent /\ ~Violates(1, event[1]) /\ ~Violates(2, event[1])) =>
        LET size == DecodedSize(event[1])
        IN  /\ fileBuffer # Absent
            /\ Length(fileBuffer[1]) = size
            /\ size = 0 => response[1] = badRequest(<<"Uploaded file is empty.">>)
            /\ size > MAX_FILE_SIZE_BYTES =>
                   response[1] = badRequest(<<"File size exceeds the 1MB limit. Your file size: ",
                                              size, " bytes.">>)
            /\ (size >= 1 /\ size <= MAX_FILE_SIZE_BYTES) => "whitespace" \in Range(steps)

\* A base64 body that decodes to 1048577 bytes was rejected.
C5_Witness ==
    /\ event # Absent
    /\ event[1].isBase64Encoded
    /\ fileBuffer # Absent
    /\ Length(fileBuffer[1]) = MAX_FILE_SIZE_BYTES + 1
    /\ response[1].statusCode = 400

\* C6: the stored textContent is the normalized text when that has at
\* most 1000 characters, and otherwise its first 1000 characters followed
\* by "...", 1003 characters; a text is not rejected for being longer, and
\* the stored and returned counts are those of the whole normalized text.
C6_TextContentTruncatedAt1000 ==
    analysis # Absent =>
        LET n == analysis[1].normalizedText
        IN  /\ Length(n) > 1000 => response[1].statusCode \in {200, 500}
            /\ response[1].statusCode = 200 =>
                   LET item == table[response[1].body.processingId]
                       stored == item.textContent
                   IN  /\ Length(n) <= 1000 => stored = n
                       /\ Length(n) > 1000 =>
                              /\ Length(stored) = 1003
                              /\ \A i \in 1..1000 : CharAt(stored, i) = CharAt(n, i)
                              /\ \A i \in 1001..1003 : CharAt(stored, i) = DOT
                       /\ item.wordCount = wordCountOf(n)
                       /\ item.lineCount = lineCountOf(n)
                       /\ response[1].body.wordCount = wordCountOf(n)
                       /\ response[1].body.lineCount = lineCountOf(n)

\* A text of more than 1000 characters with a word after the cut was stored.
C6_Witness ==
    /\ response # Absent
    /\ response[1].statusCode = 200
    /\ Length(analysis[1].normalizedText) > 1000
    /\ analysis[1].wordCount = 2
    /\ \E id \in DOMAIN table :
           Length(table[id].textContent) = 1003 /\ table[id].wordCount = 2

\* The last thing logged is the response, with time, request and status.
ResponseLogged ==
    /\ log # <<>>
    /\ log[Len(log)] = [fn |-> "logResponse", timestamp |-> now, requestId |-> invocations,
                        statusCode |-> response[1].statusCode, body |-> response[1].body]

\* Entry i of the log is the diagnostic context of the last invocation:
\* time, request, the failing condition and the request body cut to 200
\* characters.
IsDiagnostic(i, condition) ==
    /\ log[i].fn = "logError"
    /\ log[i].timestamp = now
    /\ log[i].requestId = invocations
    /\ log[i].message = condition
    /\ LET body == BodyText(event[1])
           short == log[i].bodyShort
       IN  /\ Length(short) = (IF Length(body) < 200 THEN Length(body) ELSE 200)
           /\ \A j \in 1..Length(short) : CharAt(short, j) = CharAt(body, j)

\* C10: the response is logged before it is returned, and for every
\* response that is not a 200 (each 400 and the 500) the diagnostic
\* context (time, request, failing condition, the request body cut to 200
\* characters) was logged before it.
C10_EveryFailureLogsDiagnostics ==
    response # Absent =>
        /\ ResponseLogged
        /\ response[1].statusCode = 500 =>
               \E i \in 1..(Len(log) - 1) : IsDiagnostic(i, response[1].body.error)
        /\ response[1].statusCode = 400 =>
               \E i \in 1..(Len(log) - 1) : IsDiagnostic(i, response[1].body.message)

\* What handler does log: the response on every path; before it, on the
\* 500 path, the diagnostic context; on a 400 path nothing but the
\* response, whose body holds the failing condition's message.
HandlerLogging ==
    response # Absent =>
        /\ ResponseLogged
        /\ response[1].statusCode = 500 =>
               /\ Len(log) = 2
               /\ IsDiagnostic(1, response[1].body.error)
        /\ response[1].statusCode = 400 =>
               /\ Len(log) = 1
               /\ log[1].body.message = MessageOf(FirstViolated(event[1]), event[1])
        /\ response[1].statusCode = 200 => Len(log) = 1

====
